---------------------------- MODULE Spec2Model ----------------------------
(***************************************************************************)
(* A model of RaylibOpOverloads.hpp: the arithmetic, equality and stream   *)
(* insertion overloads for raylib's Vector2/3/4 and Color, and             *)
(* PixelFormatNumberToName.                                                *)
(*                                                                         *)
(* The header is a library of free functions.  Each of them is an operator *)
(* below, computed as the code computes it, and each specification draws   *)
(* operands from bounded sets and applies the overloads to them.           *)
(*                                                                         *)
(* `float' is IEEE 754 binary32 with round-to-nearest-even.  A float is a  *)
(* record [k, s, m, e]: k is "fin", "inf" or "nan"; a finite float has the *)
(* value (-1)^s * m * 2^e with a 24 bit significand m.                     *)
(***************************************************************************)
EXTENDS Integers, Sequences, FiniteSets, TLC

VARIABLES
    col,      \* Color spec: the Color object the compound operators act on
    colOp,    \* Color spec: the last color operator applied, "none" at first
    colRhs,   \* Color spec: its right operand (a Color or a float)
    colLhs,   \* Color spec: its left operand, as it was when the call began
    colLocal, \* Color spec: the local `Color c' of the call when it returned
    colRet,   \* Color spec: what the call returned: a Color or a reference
    nOps,     \* number of operator applications so far
    va,       \* Vector spec: the vector object `a' the overloads act on
    v0,       \* Vector spec: the value a was constructed with
    vb,       \* Vector spec: a second vector, the right operand of ==
    sc,       \* Vector spec: the scalar operand
    hist,     \* Vector spec: the mutating overloads applied to a, in order
    ret,      \* Vector spec: the last call: its operator, result and effects
    cerr,     \* Vector spec: the text written to std::cerr
    exc,      \* Vector spec: the exception that reached the caller
    os,       \* Print spec: the characters written to the output stream
    printed,  \* Print spec: the last value inserted and what came back
    style     \* Print spec: the vector format selected at build time

vars == <<col, colOp, colLhs, colRhs, colLocal, colRet, nOps, va, v0, vb, sc, hist,
          ret, cerr, exc, os, printed, style>>

-----------------------------------------------------------------------------
(* Bounds of the model. *)

\* the longest sequence of Color overloads a behaviour applies
MaxOps == 2

\* the longest sequence of mutating vector overloads a behaviour applies
MaxVecOps == 2

\* the longest chain of stream insertions a behaviour makes
MaxPrints == 1

\* how far below the first and above the last PixelFormat the arguments of
\* PixelFormatNumberToName range
MaxFormat == 40

-----------------------------------------------------------------------------
(* IEEE 754 binary32 *)

\* significand width of float, in bits
MantBits == 24
\* exponent of the least significant bit of the smallest subnormal float
EMin == -149
\* exponent of the least significant bit of the largest finite float
EMax == 104

TwoP(n) == 2 ^ n
Limb == TwoP(MantBits)
MinNormal == TwoP(MantBits - 1)

Max2(a, b) == IF a >= b THEN a ELSE b

\* number of bits of n, for 0 <= n < 2^31
BitLen(n) ==
    IF n = 0 THEN 0
    ELSE CHOOSE k \in 1 .. 31 : n \div TwoP(k - 1) = 1

Fin(s, m, e) == [k |-> "fin", s |-> s, m |-> m, e |-> e]
Inf(s) == [k |-> "inf", s |-> s, m |-> 0, e |-> 0]
NaN == [k |-> "nan", s |-> 0, m |-> 0, e |-> 0]
Zero(s) == Fin(s, 0, EMin)

IsNaN(x) == x.k = "nan"
IsInf(x) == x.k = "inf"
IsFin(x) == x.k = "fin"
IsZero(x) == x.k = "fin" /\ x.m = 0
IsNormal(x) == x.k = "fin" /\ x.m >= MinNormal

XorSign(a, b) == IF a = b THEN 0 ELSE 1

\* number of bits of hi * 2^24 + lo
WideBits(hi, lo) == IF hi > 0 THEN MantBits + BitLen(hi) ELSE BitLen(lo)

\* floor((hi * 2^24 + lo) / 2^sh) for sh > 0, when it is below 2^25
Quot(hi, lo, sh) ==
    IF sh >= 2 * MantBits + 7 THEN 0
    ELSE IF sh <= MantBits THEN hi * TwoP(MantBits - sh) + lo \div TwoP(sh)
    ELSE hi \div TwoP(sh - MantBits)

\* 1, 0, -1 as rh * 2^24 + lo is above, at or below hh * 2^24
CmpHalf(rh, lo, hh) ==
    IF rh > hh \/ (rh = hh /\ lo > 0) THEN 1
    ELSE IF rh = hh /\ lo = 0 THEN 0 ELSE -1

\* the remainder of (hi * 2^24 + lo) / 2^sh against the half 2^(sh-1),
\* for sh > 0 and hi < 2^31
Cmp(hi, lo, sh) ==
    IF sh > 2 * MantBits + 7 THEN -1
    ELSE IF sh = 2 * MantBits + 7 THEN CmpHalf(hi, lo, TwoP(MantBits + 6))
    ELSE IF sh <= MantBits THEN CmpHalf(lo % TwoP(sh), 0, TwoP(sh - 1))
    ELSE CmpHalf(hi % TwoP(sh - MantBits), lo, TwoP(sh - MantBits - 1))

\* round to nearest, ties to even
RoundUp(q, cmp) == IF cmp = 1 \/ (cmp = 0 /\ q % 2 = 1) THEN q + 1 ELSE q

\* the float of significand m <= 2^24 at exponent e: a carry out of the
\* significand moves to the next binade, an exponent above EMax overflows
Pack(s, m, e) ==
    IF m = 0 THEN Zero(s)
    ELSE IF m = Limb
         THEN (IF e + 1 > EMax THEN Inf(s) ELSE Fin(s, MinNormal, e + 1))
    ELSE IF e > EMax THEN Inf(s)
    ELSE Fin(s, m, e)

\* (hi * 2^24 + lo) * 2^e rounded to the float grid of exponent e1
RoundAt(s, hi, lo, e, e1) ==
    IF e1 <= e THEN Pack(s, lo * TwoP(e - e1), e1)
    ELSE Pack(s, RoundUp(Quot(hi, lo, e1 - e), Cmp(hi, lo, e1 - e)), e1)

\* The float nearest to (-1)^s * (hi * 2^24 + lo) * 2^e, ties to even;
\* 0 <= lo < 2^24 and 0 <= hi < 2^31.
RoundWide(s, hi, lo, e) ==
    IF hi = 0 /\ lo = 0 THEN Zero(s)
    ELSE RoundAt(s, hi, lo, e, Max2(e + WideBits(hi, lo) - MantBits, EMin))

\* unary minus on a float: the sign bit flips
FNeg(x) ==
    IF IsNaN(x) THEN NaN ELSE [x EXCEPT !.s = 1 - x.s]

\* std::fabs
FAbs(x) ==
    IF IsNaN(x) THEN NaN ELSE [x EXCEPT !.s = 0]

HalfLimb == TwoP(MantBits \div 2)

\* (hh * 2^24 + mid * 2^12 + ll) * 2^e rounded to float, for
\* lowSum = (mid mod 2^12) * 2^12 + ll
MulSum(s, hh, mid, lowSum, e) ==
    RoundWide(s, hh + mid \div HalfLimb + lowSum \div Limb, lowSum % Limb, e)

MulMid(s, hh, mid, ll, e) ==
    MulSum(s, hh, mid, (mid % HalfLimb) * HalfLimb + ll, e)

\* the product of two 24 bit significands from their 12 bit halves
MulLimbs(s, h1, l1, h2, l2, e) ==
    MulMid(s, h1 * h2, h1 * l2 + l1 * h2, l1 * l2, e)

\* x * y in float
FMul(x, y) ==
    IF IsNaN(x) \/ IsNaN(y) THEN NaN
    ELSE IF (IsInf(x) /\ IsZero(y)) \/ (IsZero(x) /\ IsInf(y)) THEN NaN
    ELSE IF IsInf(x) \/ IsInf(y) THEN Inf(XorSign(x.s, y.s))
    ELSE IF x.m = 0 \/ y.m = 0 THEN Zero(XorSign(x.s, y.s))
    ELSE MulLimbs(XorSign(x.s, y.s), x.m \div HalfLimb, x.m % HalfLimb,
                  y.m \div HalfLimb, y.m % HalfLimb, x.e + y.e)

\* magnitude order of two finite floats: (e, m) lexicographically
MagLess(x, y) == x.e < y.e \/ (x.e = y.e /\ x.m < y.m)

\* (bhi * 2^24 + blo) + m or - m, times 2^e, rounded to float; the first
\* term has the sign s and is the larger in magnitude
AddAligned(s, same, bhi, blo, m, e) ==
    IF same THEN RoundWide(s, bhi + (blo + m) \div Limb, (blo + m) % Limb, e)
    ELSE IF bhi = 0 /\ blo = m THEN Zero(0)
    ELSE IF blo >= m THEN RoundWide(s, bhi, blo - m, e)
    ELSE RoundWide(s, bhi - 1, blo + Limb - m, e)

\* big + small for finite nonzero floats, |big| >= |small|, d = big.e - small.e
AddOrdered(big, small, d) ==
    IF d > MantBits + 2 THEN big
    ELSE IF d <= MantBits
         THEN AddAligned(big.s, big.s = small.s,
                         big.m \div TwoP(MantBits - d),
                         (big.m % TwoP(MantBits - d)) * TwoP(d),
                         small.m, small.e)
    ELSE AddAligned(big.s, big.s = small.s, big.m * TwoP(d - MantBits), 0,
                    small.m, small.e)

\* x + y in float
FAdd(x, y) ==
    IF IsNaN(x) \/ IsNaN(y) THEN NaN
    ELSE IF IsInf(x) /\ IsInf(y) THEN (IF x.s = y.s THEN x ELSE NaN)
    ELSE IF IsInf(x) THEN x
    ELSE IF IsInf(y) THEN y
    ELSE IF x.m = 0 /\ y.m = 0 THEN Zero(IF x.s = 1 /\ y.s = 1 THEN 1 ELSE 0)
    ELSE IF y.m = 0 THEN x
    ELSE IF x.m = 0 THEN y
    ELSE IF MagLess(x, y) THEN AddOrdered(y, x, y.e - x.e)
    ELSE AddOrdered(x, y, x.e - y.e)

\* x - y in float
FSub(x, y) == FAdd(x, FNeg(y))

\* x < y on floats (false when either is NaN)
FLt(x, y) ==
    IF IsNaN(x) \/ IsNaN(y) THEN FALSE
    ELSE IF IsZero(x) /\ IsZero(y) THEN FALSE
    ELSE IF x.s /= y.s THEN x.s = 1
    ELSE IF IsInf(x) THEN (x.s = 1 /\ ~IsInf(y))
    ELSE IF IsInf(y) THEN y.s = 0
    ELSE IF x.s = 0 THEN MagLess(x, y) ELSE MagLess(y, x)

\* x == y on floats
FEq(x, y) ==
    IF IsNaN(x) \/ IsNaN(y) THEN FALSE
    ELSE (IsZero(x) /\ IsZero(y)) \/ x = y

FGt(x, y) == FLt(y, x)
FLe(x, y) == FLt(x, y) \/ FEq(x, y)

\* one step of the long division by m: six more bits of the quotient
DivStep(qr, m) ==
    [q |-> qr.q * 64 + (qr.r * 64) \div m, r |-> (qr.r * 64) % m]

\* 1 / (m * 2^e) rounded to float from floor(2^49 / m) = q0 * 2^24 + qr.q
\* and a sticky bit for the remainder; 2^23 <= m < 2^24
RecipRound(s, q0, qr, e) ==
    RoundWide(s, 2 * q0 + (2 * qr.q + (IF qr.r > 0 THEN 1 ELSE 0)) \div Limb,
              (2 * qr.q + (IF qr.r > 0 THEN 1 ELSE 0)) % Limb,
              0 - (2 * MantBits + 2) - e)

\* 1 / (m * 2^e) for a normalised significand 2^23 <= m < 2^24
RecipNorm(s, m, e) ==
    RecipRound(s, TwoP(MantBits + 1) \div m,
               DivStep(DivStep(DivStep(DivStep(
                   [q |-> 0, r |-> TwoP(MantBits + 1) % m], m), m), m), m),
               e)

\* (float)(1.0 / b): the double quotient narrowed to float.  The quotient is
\* never within a double's rounding error of a tie between two floats, so
\* the two roundings give the float nearest to 1/b.
FRecip(b) ==
    IF IsNaN(b) THEN NaN
    ELSE IF IsInf(b) THEN Zero(b.s)
    ELSE IF b.m = 0 THEN Inf(b.s)
    ELSE RecipNorm(b.s, b.m * TwoP(MantBits - BitLen(b.m)),
                   b.e - (MantBits - BitLen(b.m)))

\* (float)n for an integer 0 <= n < 2^24
FromInt(n) ==
    IF n = 0 THEN Zero(0)
    ELSE Fin(0, n * TwoP(MantBits - BitLen(n)), BitLen(n) - MantBits)

\* the integer part of a finite float 0 <= x < 2^24
FTrunc(x) ==
    IF x.m = 0 THEN 0
    ELSE IF x.e >= 0 THEN x.m * TwoP(x.e)
    ELSE IF 0 - x.e >= MantBits THEN 0
    ELSE x.m \div TwoP(0 - x.e)

\* std::numeric_limits<float>::epsilon(): 2^-23
FEpsilon == Fin(0, MinNormal, 0 - 2 * (MantBits - 1))

\* float literals used as operands: n / 2^k for a small integer n > 0
Dyadic(s, n, k) == [FromInt(n) EXCEPT !.s = s, !.e = @ - k]

-----------------------------------------------------------------------------
(* Color: four unsigned char channels *)

\* the largest unsigned char, the bound of the clamps
UCharMax == 255

Byte == 0 .. UCharMax

\* Marks a channel that holds no determinate value: one no statement has
\* written, or the result of an undefined conversion.  Reading it can give
\* any byte, and what is computed from it is as indeterminate.
Indet == 0 - TwoP(30)

\* `Color c;': no channel initialised, nothing written yet
Uninit ==
    [val |-> [r |-> Indet, g |-> Indet, b |-> Indet, a |-> Indet],
     writes |-> <<>>]

\* c.f = v
Store(c, f, v) ==
    [val |-> [c.val EXCEPT ![f] = v], writes |-> Append(c.writes, f)]

\* (int)x + (int)y, (int)x - (int)y, (int)x * (int)y on two channels
IntPlus(x, y) == IF x = Indet \/ y = Indet THEN Indet ELSE x + y
IntMinus(x, y) == IF x = Indet \/ y = Indet THEN Indet ELSE x - y
IntTimes(x, y) == IF x = Indet \/ y = Indet THEN Indet ELSE x * y

\* (unsigned char)n for an int n
UChar(n) == n % (UCharMax + 1)

\* (unsigned char)((n>255)?255:n)
ClampHigh(n) ==
    IF n = Indet THEN Indet ELSE UChar(IF n > UCharMax THEN UCharMax ELSE n)

\* (unsigned char)((n<0)?0:n)
ClampLow(n) ==
    IF n = Indet THEN Indet ELSE UChar(IF n < 0 THEN 0 ELSE n)

\* (unsigned char)((n>255)?255:(n<0)?0:n) for an int n
ClampInt(n) ==
    IF n = Indet THEN Indet
    ELSE UChar(IF n > UCharMax THEN UCharMax ELSE IF n < 0 THEN 0 ELSE n)

\* operator+ with the fourth store going to c.a
ColorPlusColorAlphaStored(a, b) ==
    Store(Store(Store(Store(Uninit,
        "r", ClampHigh(IntPlus(a.r, b.r))),
        "g", ClampHigh(IntPlus(a.g, b.g))),
        "b", ClampHigh(IntPlus(a.b, b.b))),
        "a", ClampHigh(IntPlus(a.a, b.a)))

\* Color operator+(const Color& a, const Color& b)
ColorPlusColor(a, b) ==
    Store(Store(Store(Store(Uninit,
        "r", ClampHigh(IntPlus(a.r, b.r))),
        "g", ClampHigh(IntPlus(a.g, b.g))),
        "b", ClampHigh(IntPlus(a.b, b.b))),
        "r", ClampHigh(IntPlus(a.a, b.a)))

\* Color operator-(const Color& a, const Color& b)
ColorMinusColor(a, b) ==
    Store(Store(Store(Store(Uninit,
        "r", ClampLow(IntMinus(a.r, b.r))),
        "g", ClampLow(IntMinus(a.g, b.g))),
        "b", ClampLow(IntMinus(a.b, b.b))),
        "r", ClampLow(IntMinus(a.a, b.a)))

\* Color operator*(const Color& a, const Color& b)
ColorTimesColor(a, b) ==
    Store(Store(Store(Store(Uninit,
        "r", ClampInt(IntTimes(a.r, b.r))),
        "g", ClampInt(IntTimes(a.g, b.g))),
        "b", ClampInt(IntTimes(a.b, b.b))),
        "r", ClampInt(IntTimes(a.a, b.a)))

\* (x>255)?255:(x<0)?0:x for a float x: a NaN passes both comparisons
TernaryFloat(x) ==
    IF FGt(x, FromInt(UCharMax)) THEN FromInt(UCharMax)
    ELSE IF FLt(x, Zero(0)) THEN Zero(0) ELSE x

\* (unsigned char)y for a float y: the conversion of a NaN is undefined
UCharOfFloat(y) == IF IsNaN(y) THEN Indet ELSE FTrunc(y)

\* (unsigned char)(((float)x * b > 255) ? 255 : ...) for a channel x
ClampFloat(x, b) ==
    IF x = Indet THEN Indet
    ELSE UCharOfFloat(TernaryFloat(FMul(FromInt(x), b)))

\* Color operator*(const Color& a, const float b)
ColorTimesFloat(a, b) ==
    Store(Store(Store(Store(Uninit,
        "r", ClampFloat(a.r, b)),
        "g", ClampFloat(a.g, b)),
        "b", ClampFloat(a.b, b)),
        "r", ClampFloat(a.a, b))

RGBA(r, g, b, a) == [r |-> r, g |-> g, b |-> b, a |-> a]

\* the colors the left operand is constructed with
InitColors ==
    {RGBA(250, 10, 0, 255), RGBA(250, 0, 0, 0), RGBA(100, 200, 3, 128),
     RGBA(0, 0, 0, 0), RGBA(255, 255, 255, 255), RGBA(7, 130, 64, 10)}

\* the colors of the right operand
RhsColors ==
    {RGBA(10, 250, 0, 0), RGBA(10, 0, 0, 0), RGBA(2, 200, 1, 130),
     RGBA(255, 255, 255, 255), RGBA(1, 1, 1, 1)}

\* the scalars of the right operand: 0.5, 2, -1, 1.5, 0
RhsScalars ==
    {Dyadic(0, 1, 1), Dyadic(0, 2, 0), Dyadic(1, 1, 0), Dyadic(0, 3, 1),
     Zero(0)}

\* the variables of the vector and print specifications
NotColor == <<va, v0, vb, sc, hist, ret, cerr, exc, os, printed, style>>

\* a call of a binary overload: the operands are left alone and the local c
\* is returned by value
ColorBinary(op, c, rhs) ==
    /\ nOps < MaxOps
    /\ colLocal' = c
    /\ colRet' = c.val
    /\ colOp' = op
    /\ colLhs' = col
    /\ colRhs' = rhs
    /\ nOps' = nOps + 1
    /\ UNCHANGED col
    /\ UNCHANGED NotColor

\* a call of a compound overload: a = a op b; return a;
ColorCompound(op, c, rhs) ==
    /\ nOps < MaxOps
    /\ colLocal' = c
    /\ col' = c.val
    /\ colRet' = "a"
    /\ colOp' = op
    /\ colLhs' = col
    /\ colRhs' = rhs
    /\ nOps' = nOps + 1
    /\ UNCHANGED NotColor

\* a + b
ColorPlus == \E b \in RhsColors : ColorBinary("+", ColorPlusColor(col, b), b)

\* Color& operator+=(Color& a, const Color& b)
ColorPlusAssign ==
    \E b \in RhsColors : ColorCompound("+=", ColorPlusColor(col, b), b)

\* a - b
ColorMinus == \E b \in RhsColors : ColorBinary("-", ColorMinusColor(col, b), b)

\* Color& operator-=(Color& a, const Color& b)
ColorMinusAssign ==
    \E b \in RhsColors : ColorCompound("-=", ColorMinusColor(col, b), b)

\* a * b
ColorTimes == \E b \in RhsColors : ColorBinary("*", ColorTimesColor(col, b), b)

\* Color& operator*=(Color& a, const Color& b)
ColorTimesAssign ==
    \E b \in RhsColors : ColorCompound("*=", ColorTimesColor(col, b), b)

\* a * s
ColorScale == \E s \in RhsScalars : ColorBinary("*f", ColorTimesFloat(col, s), s)

\* Color& operator*=(Color& a, const float b)
ColorScaleAssign ==
    \E s \in RhsScalars : ColorCompound("*=f", ColorTimesFloat(col, s), s)

-----------------------------------------------------------------------------
(* Vector2, Vector3, Vector4: structs of float components *)

Vec2(x, y) == [x |-> x, y |-> y]
Vec3(x, y, z) == [x |-> x, y |-> y, z |-> z]
Vec4(x, y, z, w) == [x |-> x, y |-> y, z |-> z, w |-> w]

IsVector2(v) == DOMAIN v = {"x", "y"}
IsVector3(v) == DOMAIN v = {"x", "y", "z"}

\* a negation that forgets the y component
Vector2NegateXOnly(v) == Vec2(FNeg(v.x), v.y)

\* raymath: Vector2Negate, Vector3Negate
Vector2Negate(v) == Vec2(FNeg(v.x), FNeg(v.y))
Vector3Negate(v) == Vec3(FNeg(v.x), FNeg(v.y), FNeg(v.z))

\* raymath: Vector2Scale, Vector3Scale
Vector2Scale(v, scale) == Vec2(FMul(v.x, scale), FMul(v.y, scale))
Vector3Scale(v, scale) ==
    Vec3(FMul(v.x, scale), FMul(v.y, scale), FMul(v.z, scale))

\* Vector2 operator*(const Vector2& a, float b)
Vector2TimesFloat(a, b) == Vector2Scale(a, b)

\* Vector3 operator*(const Vector3& a, float b)
Vector3TimesFloat(a, b) == Vector3Scale(a, b)

\* what a call that returns nothing leaves in place of a value
NoValue == [none |-> TRUE]

\* a call that returned v and did nothing else
Returned(v) == [val |-> v, effects |-> <<>>]

\* std::cerr<<"Division by zero error."<<std::endl;
\* throw std::domain_error("Division by zero error");
DivisionByZero ==
    [val |-> NoValue,
     effects |-> <<[kind |-> "cerr", text |-> "Division by zero error.\n"],
                   [kind |-> "throw", type |-> "std::domain_error",
                    what |-> "Division by zero error"]>>]

\* operator/ that scales by b where it should scale by 1.0/b
Vector2DivByProduct(a, b) ==
    IF IsZero(b) THEN DivisionByZero
    ELSE Returned(Vector2TimesFloat(a, b))

\* Vector2 operator/(const Vector2& a, const float b)
Vector2DivFloat(a, b) ==
    IF IsZero(b) THEN DivisionByZero
    ELSE Returned(Vector2TimesFloat(a, FRecip(b)))

\* operator/ without its test of the divisor
Vector3DivUnchecked(a, b) == Returned(Vector3TimesFloat(a, FRecip(b)))

\* Vector3 operator/(const Vector3& a, const float b)
Vector3DivFloat(a, b) ==
    IF IsZero(b) THEN DivisionByZero
    ELSE Returned(Vector3TimesFloat(a, FRecip(b)))

\* one component of the EQUALITY_OPERATOR_KNUTH comparison
\* fabs(x - y) <= ((fabs(x) > fabs(y) ? fabs(y) : fabs(x)) * epsilon)
IsEqual(x, y) ==
    FLe(FAbs(FSub(x, y)),
        FMul(IF FGt(FAbs(x), FAbs(y)) THEN FAbs(y) ELSE FAbs(x), FEpsilon))

\* operator== that leaves YIsEqual out of its result
Vector2EqualsXOnly(a, b) == IsEqual(a.x, b.x)

\* bool operator==(const Vector2& a, const Vector2& b)
Vector2Equals(a, b) ==
    LET XIsEqual == IsEqual(a.x, b.x)
        YIsEqual == IsEqual(a.y, b.y)
    IN  XIsEqual /\ YIsEqual

\* bool operator==(const Vector3& a, const Vector3& b)
Vector3Equals(a, b) ==
    LET XIsEqual == IsEqual(a.x, b.x)
        YIsEqual == IsEqual(a.y, b.y)
        ZIsEqual == IsEqual(a.z, b.z)
    IN  XIsEqual /\ YIsEqual /\ ZIsEqual

\* bool operator==(const Vector4& a, const Vector4& b)
Vector4Equals(a, b) ==
    LET XIsEqual == IsEqual(a.x, b.x)
        YIsEqual == IsEqual(a.y, b.y)
        ZIsEqual == IsEqual(a.z, b.z)
        WIsEqual == IsEqual(a.w, b.w)
    IN  XIsEqual /\ YIsEqual /\ ZIsEqual /\ WIsEqual

\* overload resolution on the static type of the operand
Negated(a) == IF IsVector2(a) THEN Vector2Negate(a) ELSE Vector3Negate(a)
TimesFloat(a, b) ==
    IF IsVector2(a) THEN Vector2TimesFloat(a, b) ELSE Vector3TimesFloat(a, b)
DivFloat(a, b) ==
    IF IsVector2(a) THEN Vector2DivFloat(a, b) ELSE Vector3DivFloat(a, b)
Equals(a, b) ==
    IF IsVector2(a) THEN Vector2Equals(a, b)
    ELSE IF IsVector3(a) THEN Vector3Equals(a, b)
    ELSE Vector4Equals(a, b)

\* the text a call wrote to std::cerr and the exception it threw
CerrOf(r) ==
    IF r.effects = <<>> THEN "" ELSE r.effects[1].text
ThrownBy(r) ==
    IF r.effects = <<>> THEN "none" ELSE r.effects[2].type

-----------------------------------------------------------------------------
(* Operands of the vector overloads *)

One == Dyadic(0, 1, 0)
OneAndHalf == Dyadic(0, 3, 1)
Two == Dyadic(0, 2, 0)
\* (float)sqrt(2.0) = 0x3FB504F3
Sqrt2 == Fin(0, MinNormal + 3474675, 0 - (MantBits - 1))
\* FLT_MAX
FltMax == Fin(0, Limb - 1, EMax)
\* a subnormal float, 3 * 2^-149
Tiny == Fin(0, 3, EMin)

\* the components vectors are constructed with
CompVals == {One, Dyadic(1, 2, 0), Zero(0), FltMax, Tiny, Inf(0), NaN,
             Fin(0, Limb - 1, 0 - (MantBits - 1))}

\* the scalars of the right operand
VecScalars == {Sqrt2, Two, Zero(0), Zero(1), Tiny, NaN, Dyadic(1, 3, 0)}

\* the vectors a is constructed with
InitVectors ==
    {Vec2(c, OneAndHalf) : c \in CompVals}
    \cup {Vec2(c, c) : c \in {Tiny, FltMax}}
    \cup {Vec3(c, OneAndHalf, Two) : c \in CompVals}
    \cup {Vec4(One, OneAndHalf, Two, c) : c \in CompVals}

\* the float after x, away from zero
NextUp(x) == IF IsFin(x) THEN Pack(x.s, x.m + 1, x.e) ELSE x

\* the vectors a is compared with: itself, ones that differ from it by one
\* and by two units in the last place of y, one that differs from it in x
OtherVectors(a) ==
    {a, [a EXCEPT !.y = NextUp(@)], [a EXCEPT !.y = NextUp(NextUp(@))],
     [a EXCEPT !.x = FAdd(@, One)]}

NotVector == <<col, colOp, colLhs, colRhs, colLocal, colRet, nOps,
               os, printed, style>>

\* no exception has reached the caller, and another mutating overload fits
CanMutate ==
    /\ exc = "none"
    /\ Len(hist) < MaxVecOps
    /\ IsVector2(va) \/ IsVector3(va)

\* a + b: Vector2Add and Vector3Add of raymath for Vector2 and Vector3, the
\* literal (Vector4){a.x+b.x, a.y+b.y, a.z+b.z, a.w+b.w} for Vector4
VectorPlus(a, b) == [c \in DOMAIN a |-> FAdd(a[c], b[c])]

\* a - b: Vector2Subtract and Vector3Subtract of raymath, the literal
\* (Vector4){a.x-b.x, a.y-b.y, a.z-b.z, a.w-b.w} for Vector4
VectorMinus(a, b) == [c \in DOMAIN a |-> FSub(a[c], b[c])]

\* VectorN& operator+=(VectorN& a, const VectorN& b), N = 2, 3, 4:
\* a=a+b; return a;
PlusAssign ==
    /\ exc = "none"
    /\ Len(hist) < MaxVecOps
    /\ va' = VectorPlus(va, vb)
    /\ ret' = [op |-> "+=", ref |-> "a", effects |-> <<>>]
    /\ hist' = Append(hist, "+=")
    /\ UNCHANGED <<v0, vb, sc, cerr, exc>>
    /\ UNCHANGED NotVector

\* VectorN& operator-=(VectorN& a, const VectorN& b), N = 2, 3, 4:
\* a=a-b; return a;
MinusAssign ==
    /\ exc = "none"
    /\ Len(hist) < MaxVecOps
    /\ va' = VectorMinus(va, vb)
    /\ ret' = [op |-> "-=", ref |-> "a", effects |-> <<>>]
    /\ hist' = Append(hist, "-=")
    /\ UNCHANGED <<v0, vb, sc, cerr, exc>>
    /\ UNCHANGED NotVector

\* Vector2& operator-(Vector2& a), Vector3& operator-(Vector3& a)
Negate ==
    /\ CanMutate
    /\ va' = Negated(va)
    /\ ret' = [op |-> "-", ref |-> "a", effects |-> <<>>]
    /\ hist' = Append(hist, "-")
    /\ UNCHANGED <<v0, vb, sc, cerr, exc>>
    /\ UNCHANGED NotVector

\* Vector2& operator*=(Vector2& a, const float b), and for Vector3
TimesAssign ==
    /\ CanMutate
    /\ va' = TimesFloat(va, sc)
    /\ ret' = [op |-> "*=", ref |-> "a", effects |-> <<>>]
    /\ hist' = Append(hist, "*=")
    /\ UNCHANGED <<v0, vb, sc, cerr, exc>>
    /\ UNCHANGED NotVector

\* a / b: Vector2 operator/(const Vector2& a, const float b), and for Vector3
Divide ==
    /\ exc = "none"
    /\ IsVector2(va) \/ IsVector3(va)
    /\ ret' = [op |-> "/", val |-> DivFloat(va, sc).val,
               effects |-> DivFloat(va, sc).effects]
    /\ cerr' = cerr \o CerrOf(DivFloat(va, sc))
    /\ exc' = ThrownBy(DivFloat(va, sc))
    /\ UNCHANGED <<va, v0, vb, sc, hist>>
    /\ UNCHANGED NotVector

\* an operator/= that scales a in place before the divisor is tested
DivideAssignInPlace ==
    /\ CanMutate
    /\ va' = TimesFloat(va, FRecip(sc))
    /\ ret' = IF DivFloat(va, sc).effects = <<>>
              THEN [op |-> "/=", ref |-> "a", effects |-> <<>>]
              ELSE [op |-> "/=", val |-> NoValue,
                    effects |-> DivFloat(va, sc).effects]
    /\ cerr' = cerr \o CerrOf(DivFloat(va, sc))
    /\ exc' = ThrownBy(DivFloat(va, sc))
    /\ hist' = Append(hist, "/=")
    /\ UNCHANGED <<v0, vb, sc>>
    /\ UNCHANGED NotVector

\* Vector2& operator/=(Vector2& a, const float b), and for Vector3:
\* a=a/b; return a;  When a/b throws, nothing is assigned or returned.
DivideAssign ==
    /\ CanMutate
    /\ va' = IF DivFloat(va, sc).effects = <<>> THEN DivFloat(va, sc).val
             ELSE va
    /\ ret' = IF DivFloat(va, sc).effects = <<>>
              THEN [op |-> "/=", ref |-> "a", effects |-> <<>>]
              ELSE [op |-> "/=", val |-> NoValue,
                    effects |-> DivFloat(va, sc).effects]
    /\ cerr' = cerr \o CerrOf(DivFloat(va, sc))
    /\ exc' = ThrownBy(DivFloat(va, sc))
    /\ hist' = Append(hist, "/=")
    /\ UNCHANGED <<v0, vb, sc>>
    /\ UNCHANGED NotVector

\* a == b: bool operator==(const VectorN& a, const VectorN& b)
Compare ==
    /\ exc = "none"
    /\ ret' = [op |-> "==", val |-> Equals(va, vb), effects |-> <<>>]
    /\ UNCHANGED <<va, v0, vb, sc, hist, cerr, exc>>
    /\ UNCHANGED NotVector

-----------------------------------------------------------------------------
(* Stream insertion: what std::ostream writes for a number *)

Digit == <<"0", "1", "2", "3", "4", "5", "6", "7", "8", "9">>

\* the decimal digits of a natural number, most significant first
RECURSIVE NatDigits(_)
NatDigits(n) ==
    IF n < 10 THEN <<n>> ELSE Append(NatDigits(n \div 10), n % 10)

\* the characters of a sequence of digits
RECURSIVE DigitString(_)
DigitString(ds) ==
    IF ds = <<>> THEN "" ELSE Digit[Head(ds) + 1] \o DigitString(Tail(ds))

\* os << (unsigned int)n
UIntText(n) == DigitString(NatDigits(n))

\* os << x for a float x prints it as printf("%g") does: FloatPrecision
\* significant digits, rounded to nearest with ties to even, trailing zeros
\* removed, and scientific notation when the decimal exponent is below
\* MinFixedExp or not below the precision.
FloatPrecision == 6
MinFixedExp == -4

\* the floats FloatText is computed for: infinities, zeros, and the finite
\* floats whose significand shifts inside a 32 bit integer
MaxFracBits == 27
MaxIntShift == 6
Printable(x) ==
    \/ IsInf(x)
    \/ IsZero(x)
    \/ IsFin(x) /\ x.e >= 0 - MaxFracBits /\ x.e <= MaxIntShift

\* the integer part of |x| and the numerator and denominator of its fraction
IntPart(x) == IF x.e >= 0 THEN x.m * TwoP(x.e) ELSE x.m \div TwoP(0 - x.e)
FracDen(x) == IF x.e >= 0 THEN 1 ELSE TwoP(0 - x.e)
FracNum(x) == IF x.e >= 0 THEN 0 ELSE x.m % TwoP(0 - x.e)

\* the first n decimal digits of num / den, 0 <= num < den
RECURSIVE FracDigits(_, _, _)
FracDigits(num, den, n) ==
    IF n = 0 THEN <<>>
    ELSE <<(num * 10) \div den>> \o FracDigits((num * 10) % den, den, n - 1)

\* the whole decimal expansion of |x|: a fraction over 2^k ends after k digits
Expansion(x) ==
    NatDigits(IntPart(x)) \o FracDigits(FracNum(x), FracDen(x), MaxFracBits)

\* the position of the first nonzero digit
RECURSIVE FirstNonZero(_, _)
FirstNonZero(ds, i) == IF ds[i] # 0 THEN i ELSE FirstNonZero(ds, i + 1)

\* the digit at position i, zero past the end
DigitAt(ds, i) == IF i <= Len(ds) THEN ds[i] ELSE 0

\* the number written by the digits i..j
RECURSIVE DigitsValue(_, _, _)
DigitsValue(ds, i, j) ==
    IF j < i THEN 0 ELSE DigitsValue(ds, i, j - 1) * 10 + DigitAt(ds, j)

\* round the digits from position f to the precision: half goes to even
RoundsUp(ds, f) ==
    \/ DigitAt(ds, f + FloatPrecision) > 5
    \/ /\ DigitAt(ds, f + FloatPrecision) = 5
       /\ \/ \E j \in (f + FloatPrecision + 1)..Len(ds) : ds[j] # 0
          \/ DigitAt(ds, f + FloatPrecision - 1) % 2 = 1

RECURSIVE Pow10(_)
Pow10(n) == IF n = 0 THEN 1 ELSE 10 * Pow10(n - 1)

\* the FloatPrecision significant digits as a number, before the carry
Rounded(ds, f) ==
    DigitsValue(ds, f, f + FloatPrecision - 1)
        + (IF RoundsUp(ds, f) THEN 1 ELSE 0)

\* the significant digits and the decimal exponent after rounding
Significand(x) ==
    IF Rounded(Expansion(x), FirstNonZero(Expansion(x), 1))
           = Pow10(FloatPrecision)
    THEN NatDigits(Pow10(FloatPrecision - 1))
    ELSE NatDigits(Rounded(Expansion(x), FirstNonZero(Expansion(x), 1)))
DecimalExp(x) ==
    Len(NatDigits(IntPart(x))) - FirstNonZero(Expansion(x), 1)
        + (IF Rounded(Expansion(x), FirstNonZero(Expansion(x), 1))
                  = Pow10(FloatPrecision)
           THEN 1 ELSE 0)

\* %g removes the trailing zeros of the fraction
RECURSIVE StripZeros(_)
StripZeros(ds) ==
    IF ds # <<>> /\ ds[Len(ds)] = 0 THEN StripZeros(SubSeq(ds, 1, Len(ds) - 1))
    ELSE ds

\* a fraction: nothing when it has no digits, else a point and the digits
FractionText(ds) == IF ds = <<>> THEN "" ELSE "." \o DigitString(ds)

RECURSIVE Zeros(_)
Zeros(n) == IF n = 0 THEN <<>> ELSE <<0>> \o Zeros(n - 1)

\* d.ddddde+XX: the exponent has a sign and at least two digits
ScientificText(sig, X) ==
    DigitString(<<Head(sig)>>) \o FractionText(StripZeros(Tail(sig)))
        \o "e" \o (IF X < 0 THEN "-" ELSE "+")
        \o (IF X > -10 /\ X < 10 THEN "0" ELSE "")
        \o UIntText(IF X < 0 THEN 0 - X ELSE X)

\* fixed notation for MinFixedExp <= X < FloatPrecision
FixedText(sig, X) ==
    IF X >= 0
    THEN DigitString(SubSeq(sig, 1, X + 1))
             \o FractionText(StripZeros(SubSeq(sig, X + 2, Len(sig))))
    ELSE "0" \o FractionText(Zeros(0 - X - 1) \o StripZeros(sig))

MagnitudeText(x) ==
    IF IsInf(x) THEN "inf"
    ELSE IF IsZero(x) THEN "0"
    ELSE IF DecimalExp(x) < MinFixedExp \/ DecimalExp(x) >= FloatPrecision
    THEN ScientificText(Significand(x), DecimalExp(x))
    ELSE FixedText(Significand(x), DecimalExp(x))

\* os << x for a float x, with the stream's default flags
FloatText(x) == (IF x.s = 1 THEN "-" ELSE "") \o MagnitudeText(x)

-----------------------------------------------------------------------------
(* Stream insertion of Vector2 and Color, PixelFormatNumberToName *)

\* the two vector formats of the #define section
WithParentheses == "PRINT_VECTORS_WITH_PARENTHESES"
ByComponent == "PRINT_VECTORS_BY_COMPONENT"

\* a Vector2 printer that leaves out the space after the comma
Vector2TextNoSpace(st, a) ==
    IF st = WithParentheses
    THEN "(" \o FloatText(a.x) \o "," \o FloatText(a.y) \o ")"
    ELSE "x=" \o FloatText(a.x) \o ",y=" \o FloatText(a.y)

\* std::ostream& operator<<(std::ostream& os, Vector2 a): what it writes
Vector2Text(st, a) ==
    IF st = WithParentheses
    THEN "(" \o FloatText(a.x) \o "," \o FloatText(a.y) \o ")"
    ELSE "x=" \o FloatText(a.x) \o ", y=" \o FloatText(a.y)

\* std::ostream& operator<<(std::ostream& os, Vector3 a): what it writes
Vector3Text(st, a) ==
    IF st = WithParentheses
    THEN "(" \o FloatText(a.x) \o "," \o FloatText(a.y) \o ","
             \o FloatText(a.z) \o ")"
    ELSE "x=" \o FloatText(a.x) \o ", y=" \o FloatText(a.y)
              \o ", z=" \o FloatText(a.z)

\* std::ostream& operator<<(std::ostream& os, Vector4 a): what it writes
Vector4Text(st, a) ==
    IF st = WithParentheses
    THEN "(" \o FloatText(a.x) \o "," \o FloatText(a.y) \o ","
             \o FloatText(a.z) \o "," \o FloatText(a.w) \o ")"
    ELSE "x=" \o FloatText(a.x) \o ", y=" \o FloatText(a.y)
              \o ", z=" \o FloatText(a.z) \o ", w=" \o FloatText(a.w)

\* std::ostream& operator<<(std::ostream& os, Color c): what it writes
ColorText(st, c) ==
    IF st = WithParentheses
    THEN "(" \o UIntText(c.r) \o "," \o UIntText(c.g) \o ","
             \o UIntText(c.b) \o "," \o UIntText(c.a) \o ")"
    ELSE "R=" \o UIntText(c.r) \o " G=" \o UIntText(c.g)
              \o " B=" \o UIntText(c.b) \o " A=" \o UIntText(c.a)

\* os << n for an int n
IntText(n) == IF n < 0 THEN "-" \o UIntText(0 - n) ELSE UIntText(n)

\* std::ostream& operator<<(std::ostream& os, Matrix m): what it writes
MatrixText(m) ==
    " \t" \o FloatText(m.m0) \o "\t" \o FloatText(m.m4) \o " \t"
        \o FloatText(m.m8) \o " \t" \o FloatText(m.m12) \o "\n"
    \o " \t" \o FloatText(m.m1) \o "\t" \o FloatText(m.m5) \o " \t"
        \o FloatText(m.m9) \o " \t" \o FloatText(m.m13) \o "\n"
    \o " \t" \o FloatText(m.m2) \o "\t" \o FloatText(m.m6) \o " \t"
        \o FloatText(m.m10) \o " \t" \o FloatText(m.m14) \o "\n"
    \o " \t" \o FloatText(m.m3) \o "\t" \o FloatText(m.m7) \o " \t"
        \o FloatText(m.m11) \o " \t" \o FloatText(m.m15) \o "\n"

\* std::ostream& operator<<(std::ostream& os, Rectangle r): what it writes
RectangleText(r) ==
    "Rectangle corner: (" \o FloatText(r.x) \o "," \o FloatText(r.y)
        \o "), Width=" \o FloatText(r.width)
        \o "Height=" \o FloatText(r.height)

\* raylib.h: enum PixelFormat
PixelFormat ==
    [PIXELFORMAT_UNCOMPRESSED_GRAYSCALE |-> 1,
     PIXELFORMAT_UNCOMPRESSED_GRAY_ALPHA |-> 2,
     PIXELFORMAT_UNCOMPRESSED_R5G6B5 |-> 3,
     PIXELFORMAT_UNCOMPRESSED_R8G8B8 |-> 4,
     PIXELFORMAT_UNCOMPRESSED_R5G5B5A1 |-> 5,
     PIXELFORMAT_UNCOMPRESSED_R4G4B4A4 |-> 6,
     PIXELFORMAT_UNCOMPRESSED_R8G8B8A8 |-> 7,
     PIXELFORMAT_UNCOMPRESSED_R32 |-> 8,
     PIXELFORMAT_UNCOMPRESSED_R32G32B32 |-> 9,
     PIXELFORMAT_UNCOMPRESSED_R32G32B32A32 |-> 10,
     PIXELFORMAT_COMPRESSED_DXT1_RGB |-> 11,
     PIXELFORMAT_COMPRESSED_DXT1_RGBA |-> 12,
     PIXELFORMAT_COMPRESSED_DXT3_RGBA |-> 13,
     PIXELFORMAT_COMPRESSED_DXT5_RGBA |-> 14,
     PIXELFORMAT_COMPRESSED_ETC1_RGB |-> 15,
     PIXELFORMAT_COMPRESSED_ETC2_RGB |-> 16,
     PIXELFORMAT_COMPRESSED_ETC2_EAC_RGBA |-> 17,
     PIXELFORMAT_COMPRESSED_PVRT_RGB |-> 18,
     PIXELFORMAT_COMPRESSED_PVRT_RGBA |-> 19,
     PIXELFORMAT_COMPRESSED_ASTC_4x4_RGBA |-> 20,
     PIXELFORMAT_COMPRESSED_ASTC_8x8_RGBA |-> 21]

\* the lookup with a switch that has no default case: os stays empty
PixelFormatNumberToNameNoDefault(format) ==
    CASE format = PixelFormat.PIXELFORMAT_UNCOMPRESSED_GRAYSCALE ->
             "PIXELFORMAT_UNCOMPRESSED_GRAYSCALE, 8 bit per pixel (no alpha)"
      [] format = PixelFormat.PIXELFORMAT_UNCOMPRESSED_GRAY_ALPHA ->
             "PIXELFORMAT_UNCOMPRESSED_GRAY_ALPHA, 8*2 bpp (2 channels)"
      [] format = PixelFormat.PIXELFORMAT_UNCOMPRESSED_R5G6B5 ->
             "PIXELFORMAT_UNCOMPRESSED_R5G6B5, 16 bpp"
      [] format = PixelFormat.PIXELFORMAT_UNCOMPRESSED_R8G8B8 ->
             "PIXELFORMAT_UNCOMPRESSED_R8G8B8, 24 bpp"
      [] format = PixelFormat.PIXELFORMAT_UNCOMPRESSED_R5G5B5A1 ->
             "PIXELFORMAT_UNCOMPRESSED_R5G5B5A1, 16 bpp (1 bit alpha)"
      [] format = PixelFormat.PIXELFORMAT_UNCOMPRESSED_R4G4B4A4 ->
             "PIXELFORMAT_UNCOMPRESSED_R4G4B4A4, 16 bpp (4 bit alpha)"
      [] format = PixelFormat.PIXELFORMAT_UNCOMPRESSED_R8G8B8A8 ->
             "PIXELFORMAT_UNCOMPRESSED_R8G8B8A8, 32 bpp"
      [] format = PixelFormat.PIXELFORMAT_UNCOMPRESSED_R32 ->
             "PIXELFORMAT_UNCOMPRESSED_R32, 32 bpp (1 channel - float)"
      [] format = PixelFormat.PIXELFORMAT_UNCOMPRESSED_R32G32B32 ->
             "PIXELFORMAT_UNCOMPRESSED_R32G32B32, 32*3 bpp (3 channels - float)"
      [] format = PixelFormat.PIXELFORMAT_UNCOMPRESSED_R32G32B32A32 ->
             "PIXELFORMAT_UNCOMPRESSED_R32G32B32A32, 32*4 bpp (4 channels - float)"
      [] format = PixelFormat.PIXELFORMAT_COMPRESSED_DXT1_RGB ->
             "PIXELFORMAT_COMPRESSED_DXT1_RGB, 4 bpp (no alpha)"
      [] format = PixelFormat.PIXELFORMAT_COMPRESSED_DXT1_RGBA ->
             "PIXELFORMAT_COMPRESSED_DXT1_RGBA, 4 bpp (1 bit alpha)"
      [] format = PixelFormat.PIXELFORMAT_COMPRESSED_DXT3_RGBA ->
             "PIXELFORMAT_COMPRESSED_DXT3_RGBA, 8 bpp"
      [] format = PixelFormat.PIXELFORMAT_COMPRESSED_DXT5_RGBA ->
             "PIXELFORMAT_COMPRESSED_DXT5_RGBA, 8 bpp"
      [] format = PixelFormat.PIXELFORMAT_COMPRESSED_ETC1_RGB ->
             "PIXELFORMAT_COMPRESSED_ETC1_RGB, 4 bpp"
      [] format = PixelFormat.PIXELFORMAT_COMPRESSED_ETC2_RGB ->
             "PIXELFORMAT_COMPRESSED_ETC2_RGB, 4 bpp"
      [] format = PixelFormat.PIXELFORMAT_COMPRESSED_ETC2_EAC_RGBA ->
             "PIXELFORMAT_COMPRESSED_ETC2_EAC_RGBA, 8 bpp"
      [] format = PixelFormat.PIXELFORMAT_COMPRESSED_PVRT_RGB ->
             "PIXELFORMAT_COMPRESSED_PVRT_RGB, 4 bpp"
      [] format = PixelFormat.PIXELFORMAT_COMPRESSED_PVRT_RGBA ->
             "PIXELFORMAT_COMPRESSED_PVRT_RGBA, 4 bpp"
      [] format = PixelFormat.PIXELFORMAT_COMPRESSED_ASTC_4x4_RGBA ->
             "PIXELFORMAT_COMPRESSED_ASTC_4x4_RGBA, 8 bpp"
      [] format = PixelFormat.PIXELFORMAT_COMPRESSED_ASTC_8x8_RGBA ->
             "PIXELFORMAT_COMPRESSED_ASTC_8x8_RGBA, 2 bpp"
      [] OTHER -> ""

\* std::string PixelFormatNumberToName(int format)
PixelFormatNumberToName(format) ==
    CASE format = PixelFormat.PIXELFORMAT_UNCOMPRESSED_GRAYSCALE ->
             "PIXELFORMAT_UNCOMPRESSED_GRAYSCALE, 8 bit per pixel (no alpha)"
      [] format = PixelFormat.PIXELFORMAT_UNCOMPRESSED_GRAY_ALPHA ->
             "PIXELFORMAT_UNCOMPRESSED_GRAY_ALPHA, 8*2 bpp (2 channels)"
      [] format = PixelFormat.PIXELFORMAT_UNCOMPRESSED_R5G6B5 ->
             "PIXELFORMAT_UNCOMPRESSED_R5G6B5, 16 bpp"
      [] format = PixelFormat.PIXELFORMAT_UNCOMPRESSED_R8G8B8 ->
             "PIXELFORMAT_UNCOMPRESSED_R8G8B8, 24 bpp"
      [] format = PixelFormat.PIXELFORMAT_UNCOMPRESSED_R5G5B5A1 ->
             "PIXELFORMAT_UNCOMPRESSED_R5G5B5A1, 16 bpp (1 bit alpha)"
      [] format = PixelFormat.PIXELFORMAT_UNCOMPRESSED_R4G4B4A4 ->
             "PIXELFORMAT_UNCOMPRESSED_R4G4B4A4, 16 bpp (4 bit alpha)"
      [] format = PixelFormat.PIXELFORMAT_UNCOMPRESSED_R8G8B8A8 ->
             "PIXELFORMAT_UNCOMPRESSED_R8G8B8A8, 32 bpp"
      [] format = PixelFormat.PIXELFORMAT_UNCOMPRESSED_R32 ->
             "PIXELFORMAT_UNCOMPRESSED_R32, 32 bpp (1 channel - float)"
      [] format = PixelFormat.PIXELFORMAT_UNCOMPRESSED_R32G32B32 ->
             "PIXELFORMAT_UNCOMPRESSED_R32G32B32, 32*3 bpp (3 channels - float)"
      [] format = PixelFormat.PIXELFORMAT_UNCOMPRESSED_R32G32B32A32 ->
             "PIXELFORMAT_UNCOMPRESSED_R32G32B32A32, 32*4 bpp (4 channels - float)"
      [] format = PixelFormat.PIXELFORMAT_COMPRESSED_DXT1_RGB ->
             "PIXELFORMAT_COMPRESSED_DXT1_RGB, 4 bpp (no alpha)"
      [] format = PixelFormat.PIXELFORMAT_COMPRESSED_DXT1_RGBA ->
             "PIXELFORMAT_COMPRESSED_DXT1_RGBA, 4 bpp (1 bit alpha)"
      [] format = PixelFormat.PIXELFORMAT_COMPRESSED_DXT3_RGBA ->
             "PIXELFORMAT_COMPRESSED_DXT3_RGBA, 8 bpp"
      [] format = PixelFormat.PIXELFORMAT_COMPRESSED_DXT5_RGBA ->
             "PIXELFORMAT_COMPRESSED_DXT5_RGBA, 8 bpp"
      [] format = PixelFormat.PIXELFORMAT_COMPRESSED_ETC1_RGB ->
             "PIXELFORMAT_COMPRESSED_ETC1_RGB, 4 bpp"
      [] format = PixelFormat.PIXELFORMAT_COMPRESSED_ETC2_RGB ->
             "PIXELFORMAT_COMPRESSED_ETC2_RGB, 4 bpp"
      [] format = PixelFormat.PIXELFORMAT_COMPRESSED_ETC2_EAC_RGBA ->
             "PIXELFORMAT_COMPRESSED_ETC2_EAC_RGBA, 8 bpp"
      [] format = PixelFormat.PIXELFORMAT_COMPRESSED_PVRT_RGB ->
             "PIXELFORMAT_COMPRESSED_PVRT_RGB, 4 bpp"
      [] format = PixelFormat.PIXELFORMAT_COMPRESSED_PVRT_RGBA ->
             "PIXELFORMAT_COMPRESSED_PVRT_RGBA, 4 bpp"
      [] format = PixelFormat.PIXELFORMAT_COMPRESSED_ASTC_4x4_RGBA ->
             "PIXELFORMAT_COMPRESSED_ASTC_4x4_RGBA, 8 bpp"
      [] format = PixelFormat.PIXELFORMAT_COMPRESSED_ASTC_8x8_RGBA ->
             "PIXELFORMAT_COMPRESSED_ASTC_8x8_RGBA, 2 bpp"
      [] OTHER -> "Unrecognized PixelFormat number"


\* raylib.h: enum CameraProjection
CameraProjection == [CAMERA_PERSPECTIVE |-> 0, CAMERA_ORTHOGRAPHIC |-> 1]

\* what operator<< writes for the structs: Matrix, Rectangle, Image, Texture,
\* Camera2D, Camera3D, Ray, RayHitInfo, BoundingBox, NPatchInfo, CharInfo,
\* Font.  v.matrix of a camera is what GetCameraMatrix2D / GetCameraMatrix of
\* raylib returned for it.
StructText(st, v) ==
    CASE v.type = "Matrix" -> MatrixText(v)
      [] v.type = "Rectangle" -> RectangleText(v)
      [] v.type = "Image" ->
             "Image width=" \o IntText(v.width)
                 \o " Height=" \o IntText(v.height)
                 \o " Mipmap levels=" \o IntText(v.mipmaps)
                 \o " PixelFormat number:" \o IntText(v.format)
                 \o " type: " \o PixelFormatNumberToName(v.format) \o " "
      [] v.type = "Texture" ->
             "Texture ID#: " \o UIntText(v.id)
                 \o " Width=" \o IntText(v.width)
                 \o " Height=" \o IntText(v.height)
                 \o " Mipmap levels=" \o IntText(v.mipmaps)
                 \o " PixelFormat number:" \o IntText(v.format)
                 \o " type: " \o PixelFormatNumberToName(v.format) \o " "
      [] v.type = "Camera2D" ->
             "** 2D Camera info. **\nOffset: " \o Vector2Text(st, v.offset)
                 \o " Target: " \o Vector2Text(st, v.target)
                 \o " Rotation: " \o FloatText(v.rotation)
                 \o " Zoom=" \o FloatText(v.zoom)
                 \o "\nCamera matrix\n" \o MatrixText(v.matrix) \o "\n"
      [] v.type = "Camera3D" ->
             "*** 3D Camera info. ***\nPosition: "
                 \o Vector3Text(st, v.position)
                 \o " Target: " \o Vector3Text(st, v.target)
                 \o " Up vector: " \o Vector3Text(st, v.up) \o "\n"
                 \o (IF v.projection = CameraProjection.CAMERA_PERSPECTIVE
                     THEN "Projection mode: perspective.  FOV="
                              \o FloatText(v.fovy) \o " degrees\n"
                     ELSE "")
                 \o (IF v.projection = CameraProjection.CAMERA_ORTHOGRAPHIC
                     THEN "Projection mode: orthographic. Near plane width="
                              \o FloatText(v.fovy) \o "\n"
                     ELSE "")
                 \o "Camera matrix:\n" \o MatrixText(v.matrix) \o "\n"
      [] v.type = "Ray" ->
             "Ray position: " \o Vector3Text(st, v.position)
                 \o " Ray direction: " \o Vector3Text(st, v.direction)
      [] v.type = "RayHitInfo" ->
             IF v.hit
             THEN "Ray hit. Distance=" \o FloatText(v.distance)
                      \o " Position: " \o Vector3Text(st, v.position)
                      \o " Surface normal: " \o Vector3Text(st, v.normal)
             ELSE "Ray missed."
      [] v.type = "BoundingBox" ->
             "Bounding box coordinates.  Min: " \o Vector3Text(st, v.min)
                 \o " Max: " \o Vector3Text(st, v.max)
      [] v.type = "NPatchInfo" ->
             "NPatch info:  Rectangle: " \o RectangleText(v.source)
                 \o " Border offsets: Left: " \o IntText(v.left)
                 \o " Right: " \o IntText(v.right)
                 \o " Top: " \o IntText(v.top)
                 \o " Bottom: " \o IntText(v.bottom)
                 \o " Layout: " \o IntText(v.layout)
      [] v.type = "CharInfo" ->
             "Char info:  Char value: " \o IntText(v.value)
                 \o " Offset X: " \o IntText(v.offsetX)
                 \o " Offset Y: " \o IntText(v.offsetY)
                 \o " Advance position X: " \o IntText(v.advanceX)
      [] v.type = "Font" ->
             "Font info:  Base size (default char height): "
                 \o IntText(v.baseSize)
                 \o " Number of characters: " \o IntText(v.charsCount)
                 \o " Padding around chars: " \o IntText(v.charsPadding)

-----------------------------------------------------------------------------
(* Operands and actions of the stream insertions *)

\* the Vector2 values printed: {3,4}, {0.5,-1.5}, {1234567,1000000},
\* {(float)0.1,100000}, {-0,infinity}, {3,999999.5}, {-16,0.125}, {1e9,25}
PrintVectors ==
    {Vec2(FromInt(3), FromInt(4)),
     Vec2(Dyadic(0, 1, 1), Dyadic(1, 3, 1)),
     Vec2(FromInt(1234567), FromInt(1000000)),
     Vec2(Fin(0, 13421773, 0 - MaxFracBits), FromInt(100000)),
     Vec2(Zero(1), Inf(0)),
     Vec2(FromInt(3), Dyadic(0, 1999999, 1)),
     Vec2(Dyadic(1, 16, 0), Dyadic(0, 1, 3)),
     Vec2(Fin(0, 15625000, MaxIntShift), FromInt(25))}

\* the Color values printed
NotPrint == <<col, colOp, colLhs, colRhs, colLocal, colRet,
              va, v0, vb, sc, hist, ret, cerr, exc, style>>

\* os << a for a Vector2 a: the text is appended and os itself is returned
PrintVector2 ==
    /\ nOps < MaxPrints
    /\ \E a \in PrintVectors :
          /\ os' = os \o Vector2Text(style, a)
          /\ printed' = [op |-> "Vector2", arg |-> a, before |-> os,
                         returned |-> "os"]
    /\ nOps' = nOps + 1
    /\ UNCHANGED NotPrint

\* os << c for a Color c
PrintColor ==
    /\ nOps < MaxPrints
    /\ \E c \in {RGBA(255, 255, 255, 255), RGBA(0, 0, 0, 0),
                 RGBA(1, 20, 255, 9), RGBA(130, 7, 10, 100)} :
          /\ os' = os \o ColorText(style, c)
          /\ printed' = [op |-> "Color", arg |-> c, before |-> os,
                         returned |-> "os"]
    /\ nOps' = nOps + 1
    /\ UNCHANGED NotPrint

\* a Matrix with the entries 1, 2, .. 16 in m0, m1, .. m15
Matrix16 ==
    [type |-> "Matrix",
     m0 |-> FromInt(1), m1 |-> FromInt(2), m2 |-> FromInt(3),
     m3 |-> FromInt(4), m4 |-> FromInt(5), m5 |-> FromInt(6),
     m6 |-> FromInt(7), m7 |-> FromInt(8), m8 |-> FromInt(9),
     m9 |-> FromInt(10), m10 |-> FromInt(11), m11 |-> FromInt(12),
     m12 |-> FromInt(13), m13 |-> FromInt(14), m14 |-> FromInt(15),
     m15 |-> Dyadic(1, 33, 1)]

\* the structs printed
PrintStructs ==
    LET P == Vec3(One, OneAndHalf, Two)
        Q == Vec3(Zero(0), Dyadic(1, 1, 1), FromInt(100))
        R == [type |-> "Rectangle", x |-> One, y |-> Two,
              width |-> FromInt(640), height |-> Dyadic(0, 961, 1)]
    IN  {Matrix16, R,
         [type |-> "Image", width |-> 640, height |-> 480, mipmaps |-> 1,
          format |-> 7],
         [type |-> "Image", width |-> 0, height |-> -1, mipmaps |-> 0,
          format |-> 0],
         [type |-> "Texture", id |-> 3, width |-> 256, height |-> 128,
          mipmaps |-> 4, format |-> 21],
         [type |-> "Camera2D", offset |-> Vec2(FromInt(320), FromInt(240)),
          target |-> Vec2(Zero(0), One), rotation |-> FromInt(45),
          zoom |-> OneAndHalf, matrix |-> Matrix16],
         [type |-> "Camera3D", position |-> P, target |-> Q,
          up |-> Vec3(Zero(0), One, Zero(0)), fovy |-> FromInt(45),
          projection |-> 0, matrix |-> Matrix16],
         [type |-> "Camera3D", position |-> P, target |-> Q,
          up |-> Vec3(Zero(0), One, Zero(0)), fovy |-> FromInt(10),
          projection |-> 1, matrix |-> Matrix16],
         [type |-> "Camera3D", position |-> P, target |-> Q,
          up |-> Vec3(Zero(0), One, Zero(0)), fovy |-> FromInt(10),
          projection |-> 2, matrix |-> Matrix16],
         [type |-> "Ray", position |-> P, direction |-> Q],
         [type |-> "RayHitInfo", hit |-> TRUE, distance |-> Dyadic(0, 5, 1),
          position |-> P, normal |-> Q],
         [type |-> "RayHitInfo", hit |-> FALSE, distance |-> Zero(0),
          position |-> P, normal |-> Q],
         [type |-> "BoundingBox", min |-> Q, max |-> P],
         [type |-> "NPatchInfo", source |-> R, left |-> 1, top |-> 2,
          right |-> 3, bottom |-> 4, layout |-> 0],
         [type |-> "CharInfo", value |-> 65, offsetX |-> -2, offsetY |-> 3,
          advanceX |-> 12],
         [type |-> "Font", baseSize |-> 32, charsCount |-> 95,
          charsPadding |-> 4]}

\* os << a for a Vector3 a
PrintVector3 ==
    /\ nOps < MaxPrints
    /\ \E a \in {Vec3(One, OneAndHalf, Two),
                 Vec3(Dyadic(1, 1, 2), Inf(1), FromInt(1234567))} :
          /\ os' = os \o Vector3Text(style, a)
          /\ printed' = [op |-> "Vector3", arg |-> a, before |-> os,
                         returned |-> "os"]
    /\ nOps' = nOps + 1
    /\ UNCHANGED NotPrint

\* os << a for a Vector4 a
PrintVector4 ==
    /\ nOps < MaxPrints
    /\ \E a \in {Vec4(One, OneAndHalf, Two, FromInt(3)),
                 Vec4(Zero(0), Zero(1), Dyadic(0, 1, 3), FromInt(1000000))} :
          /\ os' = os \o Vector4Text(style, a)
          /\ printed' = [op |-> "Vector4", arg |-> a, before |-> os,
                         returned |-> "os"]
    /\ nOps' = nOps + 1
    /\ UNCHANGED NotPrint

\* os << v for a Matrix, Rectangle, Image, Texture, Camera2D, Camera3D, Ray,
\* RayHitInfo, BoundingBox, NPatchInfo, CharInfo or Font v
PrintStruct ==
    /\ nOps < MaxPrints
    /\ \E v \in PrintStructs :
          /\ os' = os \o StructText(style, v)
          /\ printed' = [op |-> v.type, arg |-> v, before |-> os,
                         returned |-> "os"]
    /\ nOps' = nOps + 1
    /\ UNCHANGED NotPrint

\* PixelFormatNumberToName(format): a pure function of its argument
LookupFormat ==
    /\ \E format \in
              (PixelFormat.PIXELFORMAT_UNCOMPRESSED_GRAYSCALE - MaxFormat) ..
              (PixelFormat.PIXELFORMAT_COMPRESSED_ASTC_8x8_RGBA + MaxFormat) :
          printed' = [op |-> "PixelFormatNumberToName", arg |-> format,
                      returned |-> PixelFormatNumberToName(format)]
    /\ UNCHANGED <<os, nOps>>
    /\ UNCHANGED NotPrint

VecIdle ==
    /\ va = <<>> /\ v0 = <<>> /\ vb = <<>> /\ sc = Zero(0) /\ hist = <<>>
    /\ ret = [op |-> "none"] /\ cerr = "" /\ exc = "none"

PrintIdle == os = "" /\ printed = [op |-> "none"] /\ style = "none"

ColorIdle ==
    /\ col = RGBA(0, 0, 0, 0) /\ colOp = "none" /\ colLhs = "none"
    /\ colRhs = "none" /\ colLocal = Uninit /\ colRet = "none"

ColorInit ==
    /\ col \in InitColors
    /\ colOp = "none" /\ colLhs = "none" /\ colRhs = "none"
    /\ colLocal = Uninit /\ colRet = "none"
    /\ nOps = 0
    /\ VecIdle /\ PrintIdle

ColorNext ==
    \/ ColorPlus
    \/ ColorPlusAssign
    \/ ColorMinus
    \/ ColorMinusAssign
    \/ ColorTimes
    \/ ColorTimesAssign
    \/ ColorScale
    \/ ColorScaleAssign

SpecColor == ColorInit /\ [][ColorNext]_vars

VectorInit ==
    /\ va \in InitVectors
    /\ v0 = va
    /\ vb \in OtherVectors(va)
    /\ sc \in VecScalars
    /\ hist = <<>>
    /\ ret = [op |-> "none"] /\ cerr = "" /\ exc = "none"
    /\ nOps = 0
    /\ ColorIdle /\ PrintIdle

VectorNext ==
    \/ PlusAssign
    \/ MinusAssign
    \/ Negate
    \/ TimesAssign
    \/ Divide
    \/ DivideAssign
    \/ Compare

SpecVector == VectorInit /\ [][VectorNext]_vars

PrintInit ==
    /\ style \in {WithParentheses, ByComponent}
    /\ os \in {"", "pos: "}
    /\ printed = [op |-> "none"]
    /\ nOps = 0
    /\ ColorIdle /\ VecIdle

PrintNext ==
    \/ PrintVector2
    \/ PrintVector3
    \/ PrintVector4
    \/ PrintColor
    \/ PrintStruct

SpecPrint == PrintInit /\ [][PrintNext]_vars

FormatInit ==
    /\ nOps = 0
    /\ ColorIdle /\ VecIdle /\ PrintIdle

SpecFormat == FormatInit /\ [][LookupFormat]_vars

-----------------------------------------------------------------------------
(* Properties of the color overloads *)

ChannelNames == {"r", "g", "b", "a"}

\* every channel holds a determinate byte
ValidColor(c) == \A ch \in ChannelNames : c[ch] \in Byte

\* a color overload has been called on a valid left operand
ColorCalled == colOp /= "none" /\ ValidColor(colLhs)

IsPlus == colOp \in {"+", "+="}
IsMinus == colOp \in {"-", "-="}
IsTimes == colOp \in {"*", "*="}
IsScale == colOp \in {"*f", "*=f"}

\* the Color the call produced: the temporary it returned, which a compound
\* overload has assigned to its left operand
ColorResult == colLocal.val

Min2(a, b) == IF a <= b THEN a ELSE b

\* the combination of channel ch of the two operands is above 255
Above(ch) ==
    \/ IsPlus /\ colLhs[ch] + colRhs[ch] > UCharMax
    \/ IsTimes /\ colLhs[ch] * colRhs[ch] > UCharMax
    \/ IsScale /\ FGt(FMul(FromInt(colLhs[ch]), colRhs), FromInt(UCharMax))

\* the combination of channel ch of the two operands is below 0
Below(ch) ==
    \/ IsMinus /\ colLhs[ch] - colRhs[ch] < 0
    \/ IsScale /\ FLt(FMul(FromInt(colLhs[ch]), colRhs), Zero(0))

\* the saturation into [0,255] of the combination of channel ch
Saturated(ch) ==
    IF Above(ch) THEN UCharMax
    ELSE IF Below(ch) THEN 0
    ELSE IF IsPlus THEN colLhs[ch] + colRhs[ch]
    ELSE IF IsMinus THEN colLhs[ch] - colRhs[ch]
    ELSE IF IsTimes THEN colLhs[ch] * colRhs[ch]
    ELSE FTrunc(FMul(FromInt(colLhs[ch]), colRhs))

\* C1: after Color+Color, Color-Color, Color*Color or Color*scalar on valid
\* colors, and after their compound forms, every channel of the result is a
\* byte, and it is 255 where the combination of the operands' channels is
\* above 255 and 0 where it is below 0.
C1_ChannelsSaturate ==
    ColorCalled =>
        \A ch \in ChannelNames :
            /\ ColorResult[ch] \in Byte \/ ColorResult[ch] = Indet
            /\ Above(ch) => ColorResult[ch] = UCharMax
            /\ Below(ch) => ColorResult[ch] = 0

\* C2: every channel of the result of a color overload on valid colors is
\* the saturation into [0,255] of the combination of that same channel of
\* the two operands, whatever their other channels are.
C2_ChannelsIndependent ==
    ColorCalled =>
        \A ch \in ChannelNames : ColorResult[ch] = Saturated(ch)

\* C9: in operator+ and operator- on colors, the red channel of the result
\* holds the clamped alpha combination, min(255, a.a + b.a) or
\* max(0, a.a - b.a): c.r is stored twice, the second store overwrites the
\* clamped red, and no store goes to c.a.
C9_RedHoldsClampedAlpha ==
    ColorCalled /\ (IsPlus \/ IsMinus) =>
        /\ IsPlus => ColorResult.r = Min2(UCharMax, colLhs.a + colRhs.a)
        /\ IsMinus => ColorResult.r = Max2(0, colLhs.a - colRhs.a)
        /\ colLocal.writes = <<"r", "g", "b", "r">>
        /\ ColorResult.a = Indet
        /\ colOp \in {"+=", "-="} => col = ColorResult

\* an addition whose alpha sum overflows while its red sum does not: the
\* red channel of the result is 255, the clamped alpha
C9_Witness ==
    /\ ColorCalled /\ IsPlus
    /\ colLhs.r + colRhs.r < UCharMax
    /\ colLhs.a + colRhs.a > UCharMax
    /\ ColorResult.r = UCharMax
    /\ ColorResult.a = Indet

-----------------------------------------------------------------------------
(* Properties of the vector overloads *)

Components(v) == DOMAIN v

\* C3: a / b with b exactly zero (of either sign) returns no vector, writes
\* "Division by zero error." and a line end to std::cerr and then throws
\* std::domain_error to the caller; with any other b it writes nothing,
\* throws nothing and returns a vector of a's arity.
C3_DivisionByZeroRaises ==
    ret.op = "/" =>
        IF IsZero(sc)
        THEN /\ ret.val = NoValue
             /\ Len(ret.effects) = 2
             /\ ret.effects[1] =
                    [kind |-> "cerr", text |-> "Division by zero error.\n"]
             /\ ret.effects[2].kind = "throw"
             /\ ret.effects[2].type = "std::domain_error"
             /\ cerr = "Division by zero error.\n"
             /\ exc = "std::domain_error"
        ELSE /\ ret.effects = <<>>
             /\ cerr = ""
             /\ exc = "none"
             /\ Components(ret.val) = Components(va)

\* a Vector3 was divided by negative zero and the exception reached the caller
C3_Witness ==
    /\ ret.op = "/"
    /\ IsVector3(va)
    /\ sc = Zero(1)
    /\ exc = "std::domain_error"

\* min(|x|, |y|)
MinMagnitude(x, y) == IF FLt(FAbs(y), FAbs(x)) THEN FAbs(y) ELSE FAbs(x)

\* |x - y| <= min(|x|, |y|) * epsilon, evaluated in float arithmetic
WithinTolerance(x, y) ==
    FLe(FAbs(FSub(x, y)), FMul(MinMagnitude(x, y), FEpsilon))

\* |big - small| <= |small| * 2^-23 over the reals, for finite floats of one
\* sign with |big| >= |small|: in units of the last place of small the
\* difference is a whole number, so it is at most floor(small.m / 2^23)
ExactWithinOrdered(big, small) ==
    IF big.e - small.e >= 2 THEN FALSE
    ELSE big.m * TwoP(big.e - small.e) - small.m <= small.m \div MinNormal

\* |x - y| <= min(|x|, |y|) * 2^-23 over the reals, for finite floats
ExactWithin(x, y) ==
    IF IsZero(x) /\ IsZero(y) THEN TRUE
    ELSE IF x.s # y.s THEN FALSE
    ELSE IF MagLess(x, y) THEN ExactWithinOrdered(y, x)
    ELSE ExactWithinOrdered(x, y)

\* both floats are finite and min(|x|, |y|) * epsilon is a float
ToleranceIsExact(x, y) ==
    /\ IsFin(x) /\ IsFin(y)
    /\ IsZero(MinMagnitude(x, y)) \/ MinMagnitude(x, y).e >= EMin + MantBits - 1

\* C4: the Knuth operator== on two vectors of one arity (2, 3 or 4) is true
\* exactly when every pair of components x, y has
\* |x - y| <= min(|x|, |y|) * epsilon in float arithmetic; wherever that
\* product is exact the test is the same inequality over the reals.
C4_KnuthEquality ==
    ret.op = "==" =>
        /\ Components(va) = Components(vb)
        /\ ret.val = (\A c \in Components(va) : WithinTolerance(va[c], vb[c]))
        /\ (\A c \in Components(va) : ToleranceIsExact(va[c], vb[c])) =>
              ret.val = (\A c \in Components(va) : ExactWithin(va[c], vb[c]))

\* two Vector2 that agree in x and differ by two units in the last place of y
\* compared unequal
C4_Witness ==
    /\ ret.op = "=="
    /\ IsVector2(va)
    /\ ret.val = FALSE
    /\ va.x = vb.x /\ IsFin(va.x)
    /\ IsNormal(va.y)
    /\ vb.y = NextUp(NextUp(va.y))

\* x is zero or a normal float
InRange(x) == IsZero(x) \/ IsNormal(x)

\* nothing in (a * s) / s leaves the normal range of float: s and 1/s are
\* normal, every component of a is zero or normal, and for a nonzero
\* component x both x * s and (x * s) * (1/s) are normal
RoundTripInRange(a, s) ==
    /\ IsNormal(s)
    /\ IsNormal(FRecip(s))
    /\ \A c \in Components(a) :
          /\ InRange(a[c])
          /\ \/ IsZero(a[c])
             \/ /\ IsNormal(FMul(a[c], s))
                /\ IsNormal(FMul(FMul(a[c], s), FRecip(s)))

\* a was scaled by s once and then a / s was evaluated
ScaledThenDivided == hist = <<"*=">> /\ ret.op = "/"

\* a was scaled by s, divided by s in place and compared with its first value
ScaledDividedCompared ==
    hist = <<"*=", "/=">> /\ ret.op = "==" /\ vb = v0

\* C5 as stated: for every Vector2 or Vector3 a and every nonzero scalar s,
\* (a * s) / s == a is true with the Knuth operator==.
C5_RoundTripEveryScalar ==
    ScaledThenDivided /\ ~IsZero(sc) =>
        ret.effects = <<>> /\ Equals(ret.val, v0)

\* C5 amended: when nothing in the computation leaves the normal range of
\* float, (a * s) / s == a is true with the Knuth operator==, both as an
\* expression and as a *= s; a /= s; a == original.
C5_RoundTripInRange ==
    /\ ScaledThenDivided /\ RoundTripInRange(v0, sc) =>
          ret.effects = <<>> /\ Equals(ret.val, v0)
    /\ ScaledDividedCompared /\ RoundTripInRange(v0, sc) => ret.val = TRUE

\* Vector3{1.0,1.5,2.0} scaled by sqrt(2) and divided by sqrt(2) differs from
\* the original in its bits and compares equal to it
C5_Witness ==
    /\ ScaledThenDivided
    /\ v0 = Vec3(One, OneAndHalf, Two)
    /\ sc = Sqrt2
    /\ RoundTripInRange(v0, sc)
    /\ ret.val # v0
    /\ Equals(ret.val, v0)

\* the componentwise negation of v
Negation(v) == [c \in Components(v) |-> FNeg(v[c])]

\* C8: -a on a Vector2 or Vector3 leaves in a the componentwise negation of
\* the value a had, returns a reference to a itself, and after two
\* applications a holds its original value again.
C8_NegateInPlace ==
    /\ [][Negate => /\ va' = Negation(va)
                    /\ ret'.ref = "a"
                    /\ Components(va') = Components(va)]_vars
    /\ [](hist = <<"-", "-">> => va = v0)

\* a Vector3 with a nonzero component was negated twice
C8_Witness ==
    /\ hist = <<"-", "-">>
    /\ IsVector3(va)
    /\ ret.op = "-" /\ ret.ref = "a"
    /\ va = v0
    /\ Negation(va) # va

-----------------------------------------------------------------------------
(* Properties of the stream insertions and of PixelFormatNumberToName *)

\* the codes of enum PixelFormat
KnownFormats == {PixelFormat[f] : f \in DOMAIN PixelFormat}

Fallback == "Unrecognized PixelFormat number"

\* C6: PixelFormatNumberToName returns a string for every integer: for a code
\* of enum PixelFormat a description no other code has, never the fallback;
\* for any other integer (negative, zero, past the last code) the fallback
\* "Unrecognized PixelFormat number"; never the empty string.
C6_FormatNameTotal ==
    printed.op = "PixelFormatNumberToName" =>
        /\ printed.returned # ""
        /\ printed.arg \in KnownFormats =>
              /\ printed.returned # Fallback
              /\ \A g \in KnownFormats \ {printed.arg} :
                    PixelFormatNumberToName(g) # printed.returned
        /\ printed.arg \notin KnownFormats => printed.returned = Fallback
        /\ printed.arg = 7 =>
              printed.returned = "PIXELFORMAT_UNCOMPRESSED_R8G8B8A8, 32 bpp"

\* a negative argument was looked up and the fallback came back
C6_Witness ==
    /\ printed.op = "PixelFormatNumberToName"
    /\ printed.arg < 0
    /\ printed.returned = Fallback

\* C7: os << a for a Vector2 a appends exactly "x=<x>, y=<y>" with
\* PRINT_VECTORS_BY_COMPONENT and exactly "(<x>,<y>)" with
\* PRINT_VECTORS_WITH_PARENTHESES, <x> and <y> being the stream's rendering
\* of the floats, nothing else, and returns the stream it was given;
\* Vector2{3,4} gives "x=3, y=4" and "(3,4)".
C7_Vector2Printed ==
    printed.op = "Vector2" =>
        /\ printed.returned = "os"
        /\ style = ByComponent =>
              os = printed.before \o "x=" \o FloatText(printed.arg.x)
                       \o ", y=" \o FloatText(printed.arg.y)
        /\ style = WithParentheses =>
              os = printed.before \o "(" \o FloatText(printed.arg.x)
                       \o "," \o FloatText(printed.arg.y) \o ")"
        /\ printed.arg = Vec2(FromInt(3), FromInt(4)) =>
              os = printed.before
                       \o (IF style = ByComponent THEN "x=3, y=4" ELSE "(3,4)")

\* Vector2{3,4} was appended by component to a stream that held text
C7_Witness ==
    /\ printed.op = "Vector2"
    /\ style = ByComponent
    /\ printed.arg = Vec2(FromInt(3), FromInt(4))
    /\ printed.before = "pos: "
    /\ os = "pos: x=3, y=4"

\* C10 as stated: with PRINT_VECTORS_BY_COMPONENT, os << c for a Color c
\* appends "R=<r>, G=<g>, B=<b>, A=<a>", the channels as numbers separated by
\* a comma and a space; Color{255,255,255,255} gives
\* "R=255, G=255, B=255, A=255".
C10_ColorCommaSeparated ==
    printed.op = "Color" /\ style = ByComponent =>
        /\ os = printed.before \o "R=" \o UIntText(printed.arg.r)
                    \o ", G=" \o UIntText(printed.arg.g)
                    \o ", B=" \o UIntText(printed.arg.b)
                    \o ", A=" \o UIntText(printed.arg.a)
        /\ printed.arg = RGBA(255, 255, 255, 255) =>
              os = printed.before \o "R=255, G=255, B=255, A=255"

-----------------------------------------------------------------------------
(* Property of compound division *)

\* a / s computed component by component: each one times (float)(1.0/s)
Quotient(v, s) == [c \in Components(v) |-> FMul(v[c], FRecip(s))]

\* C11: a /= s on a Vector2 or Vector3 with s exactly zero writes the
\* diagnostic, throws std::domain_error to the caller, returns nothing and
\* leaves a with the value it had; with any other s it sets a to a / s,
\* throws nothing and returns a reference to a.
C11_DivideAssign ==
    /\ [][hist' = Append(hist, "/=") =>
             IF IsZero(sc)
             THEN /\ va' = va
                  /\ exc' = "std::domain_error"
                  /\ cerr' = cerr \o "Division by zero error.\n"
                  /\ ret'.val = NoValue
             ELSE /\ va' = Quotient(va, sc)
                  /\ exc' = "none"
                  /\ cerr' = cerr
                  /\ ret'.effects = <<>>
                  /\ ret'.ref = "a"]_vars
    /\ [](hist = <<"/=">> /\ exc = "std::domain_error" => va = v0)

\* a Vector2 with a nonzero component was divided in place by negative zero:
\* the exception reached the caller and a is as it was constructed
C11_Witness ==
    /\ hist = <<"/=">>
    /\ IsVector2(va)
    /\ sc = Zero(1)
    /\ exc = "std::domain_error"
    /\ ret.val = NoValue
    /\ va = v0
    /\ ~IsZero(va.y)

=============================================================================
